---- MODULE Spec2Model ----
(***************************************************************************)
(* The drag-overlay window commands of src-tauri/src/lib.rs:               *)
(* create_drag_window, update_drag_window_position, destroy_drag_window.   *)
(*                                                                         *)
(* The three commands are async fns run by the command runtime, so calls   *)
(* may overlap.  Every call is a process that walks through the host calls *)
(* of its body one at a time; a host call either succeeds or fails.        *)
(*                                                                         *)
(* The host (window registry and windows) is modelled synchronously:       *)
(*   - the registry holds the live windows, each with an id and a label;   *)
(*   - a handle is a window id; a call through a handle whose window has   *)
(*     been torn down changes nothing, whatever it reports;                *)
(*   - build refuses a label that is already registered;                   *)
(*   - a host call that reports failure has had no effect.                 *)
(*                                                                         *)
(* Coordinates are f64 in the source.  The model keeps them exact by       *)
(* storing window positions in half units (left2 = 2*left, top2 = 2*top),  *)
(* so that y - height/2 is an integer for odd heights as well.             *)
(***************************************************************************)
EXTENDS Integers, Sequences, FiniteSets, TLC

\* ------------------------------------------------------------------ bounds
NProcs == 2          \* calls that may be in flight at once
MaxCoord == 1        \* update's x and y range over 0..MaxCoord
MaxWindows == 2      \* windows the host builds in one run

Procs == 1..NProcs
Coords == 0..MaxCoord
\* characters are tokens; the two the escaping is about:
Backtick == "<backtick>"
Backslash == "<backslash>"
\* the calls the caller issues: two cards that differ in every argument (one of
\* odd height, one whose text holds a backtick), and pointer positions
CreateArgs ==
  {[content |-> <<"A">>, x |-> 0, y |-> 0, width |-> 100, height |-> 36],
   [content |-> <<"B", Backtick>>, x |-> 10, y |-> 7, width |-> 120, height |-> 41]}
UpdateArgs == {<<c, MaxCoord - c>> : c \in Coords}

\* --------------------------------------------------------------- constants
XOffset == 20            \* x - 20.0
FallbackHeight == 36     \* PhysicalSize::new(0, 36)

CreateLabel == "drag-overlay"
UpdateLabel == "drag-overlay"
DestroyLabel_Typo == "drag_overlay"
DestroyLabel == "drag-overlay"

None == 0                \* no window / no handle
NoArgs == [content |-> <<>>, x |-> 0, y |-> 0, width |-> 0, height |-> 0]

VARIABLES
  registry,   \* the host's live windows
  nextId,     \* the id the host gives the next window it builds
  pc,         \* pc[p]: where call p stands
  op,         \* op[p]: the command p runs: "none", "create", "update", "destroy"
  arg,        \* arg[p]: the command's arguments
  handle,     \* handle[p]: the window handle the call holds (None: none)
  size,       \* size[p]: the outer height update read (or the fallback)
  res,        \* res[p]: the call's result once pc[p] = "done": "ok" or "err"
  okSteps,    \* history: the host calls of this call that reported success
  failSteps,  \* history: the host calls of this call that reported failure
  present0,   \* history: a window was registered when the call started
  startId,    \* history: nextId when the call started
  gone,       \* history: the window was torn down when update attempted the move
  lastOk      \* history: arguments of the latest create that returned Ok (NoArgs: none)

vars == <<registry, nextId, pc, op, arg, handle, size, res,
          okSteps, failSteps, present0, startId, gone, lastOk>>

\* -------------------------------------------------------------------- host
Live(id) == \E w \in registry : w.id = id
Win(id) == CHOOSE w \in registry : w.id = id

\* app.get_webview_window(label)
GetWebviewWindow(label) ==
  IF \E w \in registry : w.label = label
    THEN (CHOOSE w \in registry : w.label = label).id
    ELSE None

\* window.destroy() that the host carried out
Destroyed(id) == {w \in registry : w.id # id}

\* window.set_ignore_cursor_events(true) that the host carried out
IgnoreSet(id) ==
  {IF w.id = id THEN [w EXCEPT !.ignore_cursor_events = TRUE] ELSE w : w \in registry}

\* window.eval(script) that the host carried out
Evaluated(id, script) ==
  {IF w.id = id THEN [w EXCEPT !.script = script] ELSE w : w \in registry}

\* window.show() that the host carried out
Shown(id) == {IF w.id = id THEN [w EXCEPT !.visible = TRUE] ELSE w : w \in registry}

\* window.outer_size(): answered only for a live window
OuterHeight(id) == Win(id).height

\* --------------------------------------------------------------- pure code
RECURSIVE Escape(_)
\* html.replace('`', "\\`")
Escape(s) ==
  IF s = <<>> THEN <<>>
  ELSE (IF Head(s) = Backtick THEN <<Backslash, Backtick>> ELSE <<Head(s)>>) \o Escape(Tail(s))

\* format!(template, content): the fixed template around the content slot
Html(content) == <<"<card>">> \o content \o <<"</card>">>

\* the script handed to window.eval
Script(content) ==
  <<"document.write(", Backtick>> \o Escape(Html(content))
    \o <<Backtick, "); document.close();">>

BuildPosition_NoHalf(x, y, height) == <<2 * (x - XOffset), 2 * (y - height)>>
\* .position(x - 20.0, y - (height / 2.0)), in half units
BuildPosition(x, y, height) == <<2 * (x - XOffset), 2 * y - height>>

MovePosition_Plus(x, y, h) == <<2 * (x + XOffset), 2 * y - h>>
\* LogicalPosition::new(x - 20.0, y - half_height), in half units
MovePosition(x, y, h) == <<2 * (x - XOffset), 2 * y - h>>

NewWindow(id, a) ==
  [id |-> id, label |-> CreateLabel,
   width |-> a.width, height |-> a.height,
   left2 |-> BuildPosition(a.x, a.y, a.height)[1],
   top2 |-> BuildPosition(a.x, a.y, a.height)[2],
   script |-> <<>>, visible |-> FALSE, ignore_cursor_events |-> FALSE]

Moved_Shown(w, pos) == [w EXCEPT !.left2 = pos[1], !.top2 = pos[2], !.visible = TRUE]
\* window.set_position(..): the window after a successful move
Moved(w, pos) == [w EXCEPT !.left2 = pos[1], !.top2 = pos[2]]

\* `.map_err(|e| e.to_string())?` at each call site, and `let _ =` at line 9
BuildErr_Swallow(ok) == "ok"
BuildErr(ok) == IF ok THEN "ok" ELSE "err"
ShowErr_Swallow(ok) == "ok"
ShowErr(ok) == IF ok THEN "ok" ELSE "err"
MoveErr(ok) == IF ok THEN "ok" ELSE "err"
DestroyErr(ok) == IF ok THEN "ok" ELSE "err"
AfterIgnore_Swallow(ok) == "c_eval"
AfterIgnore(ok) == IF ok THEN "c_eval" ELSE "done"
AfterEval(ok) == IF ok THEN "c_show" ELSE "done"
UpdateAbsent_Err == "err"
UpdateAbsent == "ok"

\* ------------------------------------------------------------ call arrival
Free(p) == pc[p] \in {"idle", "done"}

\* creates that have not reached the end of their build step
Building == {q \in Procs : pc[q] \in {"c_lookup", "c_destroy", "c_build"}}

Start(p, o, a, first) ==
  /\ pc' = [pc EXCEPT ![p] = first]
  /\ op' = [op EXCEPT ![p] = o]
  /\ arg' = [arg EXCEPT ![p] = a]
  /\ handle' = [handle EXCEPT ![p] = None]
  /\ size' = [size EXCEPT ![p] = 0]
  /\ res' = [res EXCEPT ![p] = "none"]
  /\ okSteps' = [okSteps EXCEPT ![p] = {}]
  /\ failSteps' = [failSteps EXCEPT ![p] = {}]
  /\ present0' = [present0 EXCEPT ![p] = (registry # {})]
  /\ startId' = [startId EXCEPT ![p] = nextId]
  /\ gone' = [gone EXCEPT ![p] = FALSE]
  /\ UNCHANGED <<registry, nextId, lastOk>>

CallCreate(p) ==
  /\ Free(p)
  /\ nextId + Cardinality(Building) <= MaxWindows
  /\ \E a \in CreateArgs : Start(p, "create", a, "c_lookup")

CallUpdate(p) ==
  /\ Free(p)
  /\ \E a \in UpdateArgs :
       Start(p, "update", [NoArgs EXCEPT !.x = a[1], !.y = a[2]], "u_lookup")

CallDestroy(p) ==
  /\ Free(p)
  /\ Start(p, "destroy", NoArgs, "d_lookup")

\* a host call of call p reported ok / not ok
Logged(p, step, ok) ==
  /\ okSteps' = [okSteps EXCEPT ![p] = IF ok THEN @ \cup {step} ELSE @]
  /\ failSteps' = [failSteps EXCEPT ![p] = IF ok THEN @ ELSE @ \cup {step}]

\* ------------------------------------------------------ create_drag_window
CreateLookup(p) ==
  /\ pc[p] = "c_lookup"
  /\ LET existing == GetWebviewWindow(CreateLabel) IN
       /\ handle' = [handle EXCEPT ![p] = existing]
       /\ pc' = [pc EXCEPT ![p] = IF existing # None THEN "c_destroy" ELSE "c_build"]
  /\ UNCHANGED <<registry, nextId, op, arg, size, res,
                 okSteps, failSteps, present0, startId, gone, lastOk>>

\* let _ = existing.destroy();
CreateDestroy(p) ==
  /\ pc[p] = "c_destroy"
  /\ \E ok \in BOOLEAN :
       /\ registry' = IF ok THEN Destroyed(handle[p]) ELSE registry
       /\ Logged(p, "destroy", ok)
  /\ pc' = [pc EXCEPT ![p] = "c_build"]
  /\ UNCHANGED <<nextId, op, arg, handle, size, res, present0, startId, gone, lastOk>>

\* WebviewWindowBuilder::new(&app, "drag-overlay", ..) ... .visible(false).build()?
CreateBuild(p) ==
  /\ pc[p] = "c_build"
  /\ \E ok \in (IF GetWebviewWindow(CreateLabel) = None THEN BOOLEAN ELSE {FALSE}) :
       /\ Logged(p, "build", ok)
       /\ IF ok
            THEN /\ registry' = registry \cup {NewWindow(nextId, arg[p])}
                 /\ nextId' = nextId + 1
                 /\ handle' = [handle EXCEPT ![p] = nextId]
                 /\ pc' = [pc EXCEPT ![p] = "c_ignore"]
                 /\ res' = res
            ELSE /\ pc' = [pc EXCEPT ![p] = "done"]
                 /\ res' = [res EXCEPT ![p] = BuildErr(ok)]
                 /\ UNCHANGED <<registry, nextId, handle>>
  /\ UNCHANGED <<op, arg, size, present0, startId, gone, lastOk>>

\* window.set_ignore_cursor_events(true)?
CreateIgnore(p) ==
  /\ pc[p] = "c_ignore"
  /\ \E ok \in BOOLEAN :
       /\ registry' = IF ok THEN IgnoreSet(handle[p]) ELSE registry
       /\ Logged(p, "ignore", ok)
       /\ pc' = [pc EXCEPT ![p] = AfterIgnore(ok)]
       /\ res' = [res EXCEPT ![p] = IF AfterIgnore(ok) = "done" THEN "err" ELSE @]
  /\ UNCHANGED <<nextId, op, arg, handle, size, present0, startId, gone, lastOk>>

\* window.eval(&format!(.., html.replace('`', "\\`")))?
CreateEval(p) ==
  /\ pc[p] = "c_eval"
  /\ \E ok \in BOOLEAN :
       /\ registry' = IF ok THEN Evaluated(handle[p], Script(arg[p].content)) ELSE registry
       /\ Logged(p, "eval", ok)
       /\ pc' = [pc EXCEPT ![p] = AfterEval(ok)]
       /\ res' = [res EXCEPT ![p] = IF AfterEval(ok) = "done" THEN "err" ELSE @]
  /\ UNCHANGED <<nextId, op, arg, handle, size, present0, startId, gone, lastOk>>

\* window.show()?;  Ok(())
CreateShow(p) ==
  /\ pc[p] = "c_show"
  /\ \E ok \in BOOLEAN :
       /\ registry' = IF ok THEN Shown(handle[p]) ELSE registry
       /\ Logged(p, "show", ok)
       /\ res' = [res EXCEPT ![p] = ShowErr(ok)]
       /\ lastOk' = IF ShowErr(ok) = "ok" THEN arg[p] ELSE lastOk
  /\ pc' = [pc EXCEPT ![p] = "done"]
  /\ UNCHANGED <<nextId, op, arg, handle, size, present0, startId, gone>>

\* --------------------------------------------- update_drag_window_position
UpdateLookup(p) ==
  /\ pc[p] = "u_lookup"
  /\ LET window == GetWebviewWindow(UpdateLabel) IN
       /\ handle' = [handle EXCEPT ![p] = window]
       /\ IF window # None
            THEN /\ pc' = [pc EXCEPT ![p] = "u_size"]
                 /\ res' = res
            ELSE /\ pc' = [pc EXCEPT ![p] = "done"]
                 /\ res' = [res EXCEPT ![p] = UpdateAbsent]
  /\ UNCHANGED <<registry, nextId, op, arg, size,
                 okSteps, failSteps, present0, startId, gone, lastOk>>

\* window.outer_size().unwrap_or(PhysicalSize::new(0, 36))
UpdateSize(p) ==
  /\ pc[p] = "u_size"
  /\ \E ok \in (IF Live(handle[p]) THEN BOOLEAN ELSE {FALSE}) :
       /\ size' = [size EXCEPT ![p] = IF ok THEN OuterHeight(handle[p]) ELSE FallbackHeight]
       /\ Logged(p, "outer_size", ok)
  /\ pc' = [pc EXCEPT ![p] = "u_move"]
  /\ UNCHANGED <<registry, nextId, op, arg, handle, res, present0, startId, gone, lastOk>>

\* window.set_position(LogicalPosition::new(x - 20.0, y - half_height))?;  Ok(())
UpdateMove(p) ==
  /\ pc[p] = "u_move"
  /\ \E ok \in BOOLEAN :
       /\ registry' =
            IF ok
              THEN {IF w.id = handle[p]
                      THEN Moved(w, MovePosition(arg[p].x, arg[p].y, size[p]))
                      ELSE w : w \in registry}
              ELSE registry
       /\ Logged(p, "set_position", ok)
       /\ res' = [res EXCEPT ![p] = MoveErr(ok)]
  /\ gone' = [gone EXCEPT ![p] = ~Live(handle[p])]
  /\ pc' = [pc EXCEPT ![p] = "done"]
  /\ UNCHANGED <<nextId, op, arg, handle, size, present0, startId, lastOk>>

\* ----------------------------------------------------- destroy_drag_window
DestroyLookup(p) ==
  /\ pc[p] = "d_lookup"
  /\ LET window == GetWebviewWindow(DestroyLabel) IN
       /\ handle' = [handle EXCEPT ![p] = window]
       /\ IF window # None
            THEN /\ pc' = [pc EXCEPT ![p] = "d_destroy"]
                 /\ res' = res
            ELSE /\ pc' = [pc EXCEPT ![p] = "done"]
                 /\ res' = [res EXCEPT ![p] = "ok"]
  /\ UNCHANGED <<registry, nextId, op, arg, size,
                 okSteps, failSteps, present0, startId, gone, lastOk>>

\* window.destroy().map_err(|e| e.to_string())?;  Ok(())
DestroyTeardown(p) ==
  /\ pc[p] = "d_destroy"
  /\ \E ok \in BOOLEAN :
       /\ registry' = IF ok THEN Destroyed(handle[p]) ELSE registry
       /\ Logged(p, "destroy", ok)
       /\ res' = [res EXCEPT ![p] = DestroyErr(ok)]
  /\ pc' = [pc EXCEPT ![p] = "done"]
  /\ UNCHANGED <<nextId, op, arg, handle, size, present0, startId, gone, lastOk>>

\* ---------------------------------------------------------- specifications
Init ==
  /\ registry = {}
  /\ nextId = 1
  /\ pc = [p \in Procs |-> "idle"]
  /\ op = [p \in Procs |-> "none"]
  /\ arg = [p \in Procs |-> NoArgs]
  /\ handle = [p \in Procs |-> None]
  /\ size = [p \in Procs |-> 0]
  /\ res = [p \in Procs |-> "none"]
  /\ okSteps = [p \in Procs |-> {}]
  /\ failSteps = [p \in Procs |-> {}]
  /\ present0 = [p \in Procs |-> FALSE]
  /\ startId = [p \in Procs |-> 1]
  /\ gone = [p \in Procs |-> FALSE]
  /\ lastOk = NoArgs

CreateStep(p) ==
  \/ CallCreate(p)
  \/ CreateLookup(p)
  \/ CreateDestroy(p)
  \/ CreateBuild(p)
  \/ CreateIgnore(p)
  \/ CreateEval(p)
  \/ CreateShow(p)

UpdateStep(p) ==
  \/ CallUpdate(p)
  \/ UpdateLookup(p)
  \/ UpdateSize(p)
  \/ UpdateMove(p)

DestroyStep(p) ==
  \/ CallDestroy(p)
  \/ DestroyLookup(p)
  \/ DestroyTeardown(p)

Step(p) == CreateStep(p) \/ UpdateStep(p) \/ DestroyStep(p)

\* overlapping calls
Next == \E p \in Procs : Step(p)
Spec == Init /\ [][Next]_vars

\* one call at a time, each run to completion before the next is issued
SeqNext == Step(1)
SeqSpec == Init /\ [][SeqNext]_vars

\* one call at a time, create calls only
CreateNext == CreateStep(1)
CreateSpec == Init /\ [][CreateNext]_vars

\* ------------------------------------------------------------------ claims
Done(p, o) == pc[p] = "done" /\ op[p] = o
Quiet == \A p \in Procs : Free(p)
CreateSteps == {"build", "ignore", "eval", "show"}

\* window w has the size, position and content that create(a) asks for:
\* size (width, height), top-left (x - 20, y - height/2), the card of a.content
Reflects(w, a) ==
  /\ a # NoArgs
  /\ w.width = a.width /\ w.height = a.height
  /\ w.left2 = 2 * (a.x - 20) /\ w.top2 = 2 * a.y - a.height
  /\ w.script = Script(a.content)

\* C1 as stated: after any sequence of create calls at most one window is
\* registered, and a registered window has the size, position and content of the
\* most recent create call that returned success.
C1_Original ==
  Quiet => /\ Cardinality(registry) <= 1
           /\ \A w \in registry : Reflects(w, lastOk)

\* C1 amended: after any sequence of create calls at most one window is
\* registered, and a registered window that is visible has the size, position and
\* content of the most recent create call that returned success (a window left
\* hidden by a create that failed after its build step has that call's instead).
C1_Singleton ==
  Quiet => /\ Cardinality(registry) <= 1
           /\ \A w \in registry : w.visible => Reflects(w, lastOk)

\* C1 witness: a second create has replaced the first one's window and returned Ok
C1_Witness ==
  /\ Done(1, "create") /\ res[1] = "ok" /\ present0[1]
  /\ \E w \in registry : w.visible /\ w.id = 2 /\ Reflects(w, lastOk)

\* C2 as stated: destroy_drag_window returns success in every state, a teardown
\* failure being discarded.
C2_DestroyNeverErrs ==
  \A p \in Procs : Done(p, "destroy") => res[p] = "ok"

C4_CreateSuccess ==
  \A p \in Procs :
    (Done(p, "create") /\ res[p] = "ok") =>
      /\ Cardinality(registry) = 1
      /\ \A w \in registry :
           /\ w.label = "drag-overlay"
           /\ w.width = arg[p].width /\ w.height = arg[p].height
           /\ w.left2 = 2 * (arg[p].x - 20)
           /\ w.top2 = 2 * arg[p].y - arg[p].height
           /\ w.visible /\ w.ignore_cursor_events
      /\ CreateSteps \subseteq okSteps[p]
      /\ CreateSteps \cap failSteps[p] = {}

\* C4 witness: a create has returned Ok
C4_Witness == Done(1, "create") /\ res[1] = "ok" /\ registry # {}

\* C5: when the host rejects the build step, create returns an error and no
\* window built during the call is registered.
C5_BuildRejected ==
  \A p \in Procs :
    (Done(p, "create") /\ "build" \in failSteps[p]) =>
      /\ res[p] = "err"
      /\ \A w \in registry : w.id < startId[p]

\* C5 witness: a create whose build was rejected has returned
C5_Witness == Done(1, "create") /\ "build" \in failSteps[1] /\ res[1] = "err"

\* C6: a successful create(_, x, y, w, h) leaves the window's top-left at
\* (x - 20, y - h/2); a successful reposition(x2, y2) of a window whose observed
\* outer height is h' (36 when the size cannot be read) leaves it at
\* (x2 - 20, y2 - h'/2).
C6_PositioningLaw ==
  \A p \in Procs :
    /\ (Done(p, "create") /\ res[p] = "ok") =>
         \E w \in registry :
           /\ w.id = handle[p]
           /\ w.left2 = 2 * (arg[p].x - 20)
           /\ w.top2 = 2 * arg[p].y - arg[p].height
    /\ (Done(p, "update") /\ res[p] = "ok" /\ handle[p] # None) =>
         \E w \in registry :
           /\ w.id = handle[p]
           /\ size[p] = (IF "outer_size" \in okSteps[p] THEN w.height ELSE 36)
           /\ w.left2 = 2 * (arg[p].x - 20)
           /\ w.top2 = 2 * arg[p].y - size[p]

\* C6 witness: a reposition has moved a window whose height of 41 it read
C6_Witness ==
  /\ Done(1, "update") /\ res[1] = "ok" /\ handle[1] # None
  /\ size[1] = 41 /\ arg[1].x = 1

\* C7: with no window registered, update_drag_window_position returns success,
\* makes no host call that can fail, and leaves no window registered.
C7_RepositionOnAbsence ==
  \A p \in Procs :
    (Done(p, "update") /\ ~present0[p]) =>
      /\ res[p] = "ok"
      /\ okSteps[p] \cup failSteps[p] = {}
      /\ registry = {}

\* C7 witness: a reposition has returned after the window of an earlier create
\* had been destroyed
C7_Witness == Done(1, "update") /\ ~present0[1] /\ nextId > 1

\* a window without its position
Frame(w) == [w EXCEPT !.left2 = 0, !.top2 = 0]

\* C8: no step of an update_drag_window_position call, successful or not,
\* changes which window exists, its size, content, visibility or pass-through.
C8_RepositionFrame ==
  [][\A p \in Procs :
       (op[p] = "update" /\ pc[p] \in {"u_lookup", "u_size", "u_move"}
          /\ pc'[p] # pc[p]) =>
         {Frame(w) : w \in registry'} = {Frame(w) : w \in registry}]_vars

\* C8 witness: a reposition has moved a window away from where create put it
C8_Witness ==
  /\ Done(1, "update") /\ res[1] = "ok"
  /\ \E w \in registry : w.id = handle[1] /\ w.left2 # 2 * (lastOk.x - 20)

\* C9: in every reachable state, a window registered under "drag-overlay" that
\* is visible has pointer pass-through enabled.
C9_NeverIntercepts ==
  \A w \in registry :
    (w.label = "drag-overlay" /\ w.visible) => w.ignore_cursor_events

\* C9 witness: a visible window is registered while another create, whose own
\* window was torn down under it, is still between its build and its show
C9_Witness ==
  \E w \in registry, p \in Procs :
    /\ w.visible
    /\ pc[p] \in {"c_ignore", "c_eval", "c_show"}
    /\ handle[p] # w.id

\* C10 as stated: a reposition whose window has been torn down by the time it
\* attempts the move returns success.
C10_RaceNotPenalized ==
  \A p \in Procs : (Done(p, "update") /\ gone[p]) => res[p] = "ok"

====
